---- MODULE Spec2Model ----
(***************************************************************************)
(* Model of App.py, the "AI Prompt Enhancer" page: one form (ROLE, CONTEXT *)
(* and TASK), one call to the chat-completion provider, and the parsing of *)
(* the provider's text into an analysis and an enhanced prompt.            *)
(*                                                                         *)
(* Python strings are modelled as sequences of one-character strings, so   *)
(* that `in`, str.split, str.replace, str.strip and re.search are modelled *)
(* by what they do on characters.                                          *)
(***************************************************************************)
EXTENDS Integers, Sequences, FiniteSets, TLC

VARIABLES
  api_key,              \* sidebar text input (line 23)
  role, context, task,  \* form fields (lines 144-155)
  submit,               \* form_submit_button value of the current run
  response,             \* what the provider did in the current run
  enhanced_prompt_full, \* the text being parsed (line 92)
  analysis,             \* line 167, first returned value
  enhanced_prompt,      \* line 167, second returned value
  rule,                 \* parsing branch taken in this run, 0 when not parsed
  page,                 \* elements rendered by the handler in the current run
  calls,                \* completion calls made in the current run
  prev,                 \* what the run before the current one showed
  partA, partP,         \* the two sections a well-formed text is built from
  pc                    \* position of the parsing experiment

vars == <<api_key, role, context, task, submit, response,
          enhanced_prompt_full, analysis, enhanced_prompt, rule, page,
          calls, prev, partA, partP, pc>>

formVars ==
  <<api_key, role, context, task, submit, response, page, calls, prev>>

----------------------------------------------------------------------------
(* Bounds *)

\* longest provider text, in chunks, parsed by the splitter on its own
MaxLen == 4
\* longest provider text, in chunks, returned to the form handler
MaxRespLen == 2
\* longest section, in chunks, of a well-formed two-header text
MaxPartLen == 2

----------------------------------------------------------------------------
(* Literals of the source *)

HdrAnalysis ==
  <<"#","#"," ","A","n","a","l","y","s","i","s">>

HdrEnhanced ==
  <<"#","#"," ","E","n","h","a","n","c","e","d"," ","P","r","o","m","p","t">>

MarkEnhanced ==
  <<"E","N","H","A","N","C","E","D"," ","P","R","O","M","P","T",":">>

MarkRole == <<"R","O","L","E",":">>

MarkTask == <<"T","A","S","K",":">>

FallbackPrompt ==
  <<"C","o","u","l","d"," ","n","o","t"," ","i","d","e","n","t","i","f","y",
    " ","a"," ","c","l","e","a","r"," ","p","r","o","m","p","t"," ","s","e",
    "c","t","i","o","n","."," ","P","l","e","a","s","e"," ","s","e","e"," ",
    "t","h","e"," ","a","n","a","l","y","s","i","s"," ","t","a","b",".">>

\* Python's None: a value that is no string of characters
None == <<"None">>

\* characters str.strip() removes, among those the model's texts contain
Whitespace == {" ", "\n", "\t", "\r"}

----------------------------------------------------------------------------
(* Python string operations *)

\* s[i:] and s[:i] in 1-based positions
From(s, i) == SubSeq(s, i, Len(s))

Upto(s, i) == SubSeq(s, 1, i)

\* sub occurs in s at position i
OccursAt(s, sub, i) ==
  /\ i >= 1
  /\ i + Len(sub) - 1 <= Len(s)
  /\ SubSeq(s, i, i + Len(sub) - 1) = sub

\* sub in s
Contains(s, sub) == \E i \in 1..Len(s) : OccursAt(s, sub, i)

\* s.find(sub, from): first position >= from where sub occurs, 0 when none
Find(s, sub, from) ==
  LET hits == {i \in from..Len(s) : OccursAt(s, sub, i)}
  IN  IF hits = {} THEN 0 ELSE CHOOSE i \in hits : \A j \in hits : i <= j

\* s.split(sep): the list of the pieces between the occurrences of sep
RECURSIVE PySplit(_, _)
PySplit(s, sep) ==
  LET i == Find(s, sep, 1)
  IN  IF i = 0 THEN <<s>>
      ELSE <<Upto(s, i - 1)>> \o PySplit(From(s, i + Len(sep)), sep)

\* s.replace(old, ""): every occurrence of old, left to right, removed
RECURSIVE PyRemove(_, _)
PyRemove(s, old) ==
  LET i == Find(s, old, 1)
  IN  IF i = 0 THEN s
      ELSE Upto(s, i - 1) \o PyRemove(From(s, i + Len(old)), old)

RECURSIVE LStrip(_)
LStrip(s) ==
  IF s # <<>> /\ Head(s) \in Whitespace THEN LStrip(Tail(s)) ELSE s

RECURSIVE RStrip(_)
RStrip(s) ==
  IF s # <<>> /\ s[Len(s)] \in Whitespace
  THEN RStrip(Upto(s, Len(s) - 1)) ELSE s

\* s.strip()
PyStrip(s) == RStrip(LStrip(s))

\* truth value of a returned value: None and "" are false
Truthy(v) == v # None /\ v # <<>>

----------------------------------------------------------------------------
(* re.search(r"(ROLE:.*?TASK:.*?)(?=\n\n|$)", s, re.DOTALL) *)

\* LookaheadAt with the blank-line alternative left out, as in (?=$): the
\* span then always runs to the end of the text (C6 excludes it)
LookaheadEndOnly(s, e) ==
  \/ e = Len(s) + 1
  \/ e = Len(s) /\ s[e] = "\n"

\* the lookahead (?=\n\n|$) holds before position e: a blank line starts at
\* e, or e is past the end, or e is a newline that ends the string
LookaheadAt(s, e) ==
  \/ OccursAt(s, <<"\n", "\n">>, e)
  \/ e = Len(s) + 1
  \/ e = Len(s) /\ s[e] = "\n"

\* the match that starts at i, as <<start, end>> (end exclusive), <<>> if none
MatchAt(s, i) ==
  IF ~OccursAt(s, MarkRole, i) THEN <<>>
  ELSE LET j == Find(s, MarkTask, i + Len(MarkRole))
       IN  IF j = 0 THEN <<>>
           ELSE LET ends == {e \in (j + Len(MarkTask))..(Len(s) + 1) :
                               LookaheadAt(s, e)}
                IN  <<i, CHOOSE e \in ends : \A f \in ends : e <= f>>

\* the leftmost match, <<>> when the pattern matches nowhere
ReSearch(s) ==
  LET starts == {i \in 1..Len(s) : MatchAt(s, i) # <<>>}
  IN  IF starts = {} THEN <<>>
      ELSE MatchAt(s, CHOOSE i \in starts : \A k \in starts : i <= k)

----------------------------------------------------------------------------
(* The parsing step of enhance_prompt *)

\* an exception raised while parsing; line 132 catches it
ParseRaised ==
  [analysis |-> None, final_prompt |-> None, rule |-> 0, raised |-> TRUE]

Parsed(a, e, n) ==
  [analysis |-> a, final_prompt |-> e, rule |-> n, raised |-> FALSE]

\* SplitHeaders without the replace of line 101: the "## Analysis" marker
\* stays in the analysis (C8 excludes it)
SplitHeadersKeepMarker(text) ==
  LET parts == PySplit(text, HdrEnhanced)
  IN  IF Len(parts) < 2 THEN ParseRaised
      ELSE Parsed(PyStrip(parts[1]), PyStrip(parts[2]), 1)

\* lines 100-102; parts[1] raises IndexError when the list has one item
SplitHeaders(text) ==
  LET parts == PySplit(text, HdrEnhanced)
  IN  IF Len(parts) < 2 THEN ParseRaised
      ELSE Parsed(PyStrip(PyRemove(parts[1], HdrAnalysis)),
                  PyStrip(parts[2]), 1)

\* lines 106-108; parts[1] raises IndexError when the list has one item
SplitEnhanced(text) ==
  LET parts == PySplit(text, MarkEnhanced)
  IN  IF Len(parts) < 2 THEN ParseRaised
      ELSE Parsed(PyStrip(parts[1]), MarkEnhanced \o PyStrip(parts[2]), 2)

\* lines 113-124
SplitRoleTask(text) ==
  LET prompt_match == ReSearch(text)
  IN  IF prompt_match # <<>>
      THEN Parsed(PyStrip(Upto(text, prompt_match[1] - 1)),
                  PyStrip(SubSeq(text, prompt_match[1], prompt_match[2] - 1)),
                  3)
      ELSE Parsed(text, FallbackPrompt, 3)

\* lines 125-128
NoPromptFound(text) == Parsed(text, FallbackPrompt, 4)

\* ParseResponse with the tests of lines 99 and 105 in the other order
\* (C7 excludes it)
ParseResponseMarkerFirst(text) ==
  IF text = None THEN ParseRaised
  ELSE IF Contains(text, MarkEnhanced)
  THEN SplitEnhanced(text)
  ELSE IF Contains(text, HdrAnalysis) /\ Contains(text, HdrEnhanced)
  THEN SplitHeaders(text)
  ELSE IF Contains(text, MarkRole) /\ Contains(text, MarkTask)
  THEN SplitRoleTask(text)
  ELSE NoPromptFound(text)

\* ParseResponse with `or` for the `and` of line 99: a text with one header
\* marker reaches parts[1] of line 102 with a one-item list (C9 excludes it)
ParseResponseEitherHeader(text) ==
  IF text = None THEN ParseRaised
  ELSE IF Contains(text, HdrAnalysis) \/ Contains(text, HdrEnhanced)
  THEN SplitHeaders(text)
  ELSE IF Contains(text, MarkEnhanced)
  THEN SplitEnhanced(text)
  ELSE IF Contains(text, MarkRole) /\ Contains(text, MarkTask)
  THEN SplitRoleTask(text)
  ELSE NoPromptFound(text)

\* lines 95-130; the test of line 99 raises TypeError when the content of
\* the message is None
ParseResponse(text) ==
  IF text = None THEN ParseRaised
  ELSE IF Contains(text, HdrAnalysis) /\ Contains(text, HdrEnhanced)
  THEN SplitHeaders(text)
  ELSE IF Contains(text, MarkEnhanced)
  THEN SplitEnhanced(text)
  ELSE IF Contains(text, MarkRole) /\ Contains(text, MarkTask)
  THEN SplitRoleTask(text)
  ELSE NoPromptFound(text)

----------------------------------------------------------------------------
(* Texts *)

\* pieces the provider's texts are made of: the five markers, a marker in
\* another letter case, white space, a blank line and a letter
Chunks ==
  {HdrAnalysis, HdrEnhanced, MarkEnhanced, MarkRole, MarkTask,
   <<"r","o","l","e",":">>, <<" ">>, <<"\n">>, <<"\n", "\n">>, <<"x">>}

\* pieces of the texts the provider returns to the form handler
RespChunks == {HdrAnalysis, HdrEnhanced, MarkEnhanced, <<" ">>, <<"x">>}

\* pieces of a section that contains neither header marker
PartChunks == {MarkEnhanced, <<"#">>, <<" ">>, <<"\n">>, <<"x">>}

RECURSIVE TextsOf(_, _)
TextsOf(chunks, n) ==
  IF n = 0 THEN {<<>>}
  ELSE LET shorter == TextsOf(chunks, n - 1)
       IN  shorter \cup {t \o c : t \in shorter, c \in chunks}

RawTexts == TextsOf(Chunks, MaxLen)

RespTexts == TextsOf(RespChunks, MaxRespLen)

PartTexts == TextsOf(PartChunks, MaxPartLen)

\* a name that no statement of the current run has bound
Unset == <<"unset">>

\* values typed into a form field or into the key input
FieldValues == {<<>>, <<"x">>}

KeyValues == {<<>>, <<"k">>}

\* what client.chat.completions.create may do: raise, or return a message
\* whose content is a text or None
NotCalled == [kind |-> "not_called", content |-> None]

Responses ==
  {[kind |-> "raise", content |-> None], [kind |-> "ok", content |-> None]}
    \cup {[kind |-> "ok", content |-> t] : t \in RespTexts}

----------------------------------------------------------------------------
(* The page *)

\* one st.* call: the widget, its fixed text and its data
El(kind, text, data) == [kind |-> kind, text |-> text, data |-> data]

\* lines 170-206
RenderResult(a, e, r, c, t) ==
  << El("success", "Prompt enhanced successfully!", <<>>),
     El("header", "Enhanced Prompt", <<>>),
     El("markdown", "", e),
     El("download_button", "enhanced_prompt.txt", e),
     El("header", "Analysis & Feedback", <<>>),
     El("markdown", "", a),
     El("header", "Original vs Enhanced", <<>>),
     El("subheader", "Original Components", <<>>),
     El("markdown", "**ROLE:**", <<>>),
     El("markdown", "", r),
     El("markdown", "**CONTEXT:**", <<>>),
     El("markdown", "", c),
     El("markdown", "**TASK:**", <<>>),
     El("markdown", "", t),
     El("subheader", "Enhanced Prompt", <<>>),
     El("markdown", "", e) >>

\* what a page shows, by its first element
Shown(p) == IF p = <<>> THEN "nothing" ELSE p[1].kind

----------------------------------------------------------------------------
(* enhance_prompt, lines 39-134 *)

\* lines 40-42
KeyMissing ==
  [analysis |-> None, enhanced_prompt |-> None, full |-> Unset, rule |-> 0,
   page |-> <<El("error",
                 "Please enter your OpenAI API key in the sidebar", <<>>)>>,
   response |-> NotCalled, called |-> 0]

\* CallFailed with the failed call made a second time before the error is
\* reported (C10 excludes it)
CallFailedRetried(o) ==
  [analysis |-> None, enhanced_prompt |-> None,
   full |-> IF o.kind = "ok" THEN o.content ELSE Unset, rule |-> 0,
   page |-> <<El("error", "Error calling OpenAI API", <<>>)>>,
   response |-> o, called |-> 2]

\* lines 132-134, reached from the call of line 81 or from the parsing
CallFailed(o) ==
  [analysis |-> None, enhanced_prompt |-> None,
   full |-> IF o.kind = "ok" THEN o.content ELSE Unset, rule |-> 0,
   page |-> <<El("error", "Error calling OpenAI API", <<>>)>>,
   response |-> o, called |-> 1]

\* line 130
CallReturned(o, parsed) ==
  [analysis |-> parsed.analysis, enhanced_prompt |-> parsed.final_prompt,
   full |-> o.content, rule |-> parsed.rule, page |-> <<>>,
   response |-> o, called |-> 1]

\* lines 81-134: o is what the provider does when it is called
CallProvider(o) ==
  IF o.kind = "raise" THEN CallFailed(o)
  ELSE LET parsed == ParseResponse(o.content)
       IN  IF parsed.raised THEN CallFailed(o) ELSE CallReturned(o, parsed)

\* EnhancePrompt without the key test of lines 40-42 (C2 excludes it)
EnhancePromptNoKeyCheck(key, o) == CallProvider(o)

\* lines 39-134
EnhancePrompt(key, o) ==
  IF key = <<>> THEN KeyMissing ELSE CallProvider(o)

----------------------------------------------------------------------------
(* The submit handler, lines 160-206 *)

\* FormComplete with `or` for the `and` of line 161 (C1 excludes it)
FormCompleteAny(r, c, t) == r # <<>> \/ c # <<>> \/ t # <<>>

\* line 161
FormComplete(r, c, t) == r # <<>> /\ c # <<>> /\ t # <<>>

\* lines 161-162
WarnIncomplete ==
  [analysis |-> Unset, enhanced_prompt |-> Unset, full |-> Unset, rule |-> 0,
   page |-> <<El("warning",
                 "Please fill in all three prompt components", <<>>)>>,
   response |-> NotCalled, called |-> 0]

\* line 169
ShowsResult(a, e) == Truthy(a) /\ Truthy(e)

\* lines 169-206
Display(got, r, c, t) ==
  IF ShowsResult(got.analysis, got.enhanced_prompt)
  THEN [got EXCEPT !.page =
          got.page \o RenderResult(got.analysis, got.enhanced_prompt,
                                   r, c, t)]
  ELSE got

\* lines 160-206
HandleSubmit(key, r, c, t, o) ==
  IF ~FormComplete(r, c, t) THEN WarnIncomplete
  ELSE Display(EnhancePrompt(key, o), r, c, t)

----------------------------------------------------------------------------
(* The form: one run of the script per user action *)

Init ==
  /\ api_key = <<>>
  /\ role = <<>> /\ context = <<>> /\ task = <<>>
  /\ submit = FALSE
  /\ response = NotCalled
  /\ enhanced_prompt_full = Unset
  /\ analysis = Unset
  /\ enhanced_prompt = Unset
  /\ rule = 0
  /\ page = <<>>
  /\ calls = 0
  /\ prev = "nothing"
  /\ partA = <<>> /\ partP = <<>>
  /\ pc = "form"

\* the user changes the key in the sidebar: the script runs with submit
\* False (line 160) and renders no result
EnterApiKey(k) ==
  /\ pc = "form"
  /\ k # api_key
  /\ api_key' = k
  /\ submit' = FALSE
  /\ response' = NotCalled
  /\ enhanced_prompt_full' = Unset
  /\ analysis' = Unset
  /\ enhanced_prompt' = Unset
  /\ rule' = 0
  /\ page' = <<>>
  /\ calls' = 0
  /\ prev' = Shown(page)
  /\ UNCHANGED <<role, context, task, partA, partP, pc>>

\* the user submits the form with the fields r, c and t: the script runs
\* with submit True; o is what the provider does if the run calls it
Submit(r, c, t, o) ==
  /\ pc = "form"
  /\ \E run \in {HandleSubmit(api_key, r, c, t, o)} :
       /\ role' = r /\ context' = c /\ task' = t
       /\ submit' = TRUE
       /\ response' = run.response
       /\ enhanced_prompt_full' = run.full
       /\ analysis' = run.analysis
       /\ enhanced_prompt' = run.enhanced_prompt
       /\ rule' = run.rule
       /\ page' = run.page
       /\ calls' = run.called
  /\ prev' = Shown(page)
  /\ UNCHANGED <<api_key, partA, partP, pc>>

Next ==
  \/ \E k \in KeyValues : EnterApiKey(k)
  \/ \E r \in FieldValues, c \in FieldValues, t \in FieldValues,
        o \in Responses : Submit(r, c, t, o)

Spec == Init /\ [][Next]_vars

----------------------------------------------------------------------------
(* The parsing step on its own, over every text up to MaxLen chunks *)

SplitInit ==
  /\ enhanced_prompt_full \in RawTexts
  /\ analysis = Unset
  /\ enhanced_prompt = Unset
  /\ rule = 0
  /\ pc = "ready"
  /\ partA = <<>> /\ partP = <<>>
  /\ api_key = <<"k">>
  /\ role = <<"x">> /\ context = <<"x">> /\ task = <<"x">>
  /\ submit = TRUE
  /\ response = NotCalled
  /\ page = <<>>
  /\ calls = 0
  /\ prev = "nothing"

\* lines 95-134 applied to enhanced_prompt_full
Parse ==
  /\ pc = "ready"
  /\ \E parsed \in {ParseResponse(enhanced_prompt_full)} :
       /\ analysis' = parsed.analysis
       /\ enhanced_prompt' = parsed.final_prompt
       /\ rule' = parsed.rule
  /\ pc' = "parsed"
  /\ UNCHANGED <<enhanced_prompt_full, partA, partP>>
  /\ UNCHANGED formVars

SplitNext == Parse

SplitSpec == SplitInit /\ [][SplitNext]_vars

----------------------------------------------------------------------------
(* Well-formed two-header texts: parse, put the markers back, parse again *)

RoundTripInit ==
  /\ partA \in PartTexts
  /\ partP \in PartTexts
  /\ enhanced_prompt_full = HdrAnalysis \o partA \o HdrEnhanced \o partP
  /\ analysis = Unset
  /\ enhanced_prompt = Unset
  /\ rule = 0
  /\ pc = "ready"
  /\ api_key = <<"k">>
  /\ role = <<"x">> /\ context = <<"x">> /\ task = <<"x">>
  /\ submit = TRUE
  /\ response = NotCalled
  /\ page = <<>>
  /\ calls = 0
  /\ prev = "nothing"

\* the two returned sections with the markers re-inserted, parsed again
Reparse ==
  /\ pc = "parsed"
  /\ analysis # None
  /\ \E rebuilt \in
         {HdrAnalysis \o analysis \o HdrEnhanced \o enhanced_prompt} :
       \E parsed \in {ParseResponse(rebuilt)} :
         /\ enhanced_prompt_full' = rebuilt
         /\ analysis' = parsed.analysis
         /\ enhanced_prompt' = parsed.final_prompt
         /\ rule' = parsed.rule
  /\ pc' = "reparsed"
  /\ UNCHANGED <<partA, partP>>
  /\ UNCHANGED formVars

RoundTripNext == Parse \/ Reparse

RoundTripSpec == RoundTripInit /\ [][RoundTripNext]_vars

----------------------------------------------------------------------------
(* Vocabulary of the properties *)

Kinds(p) == {p[i].kind : i \in DOMAIN p}

CountKind(p, k) == Cardinality({i \in DOMAIN p : p[i].kind = k})

HasEl(p, el) == \E i \in DOMAIN p : p[i] = el

Range(s) == {s[i] : i \in DOMAIN s}

Chars == UNION {Range(c) : c \in Chunks \cup PartChunks \cup {FallbackPrompt}}

\* v is a string of characters (not None, not unbound)
IsText(v) == \A i \in DOMAIN v : v[i] \in Chars

AllFilled == role # <<>> /\ context # <<>> /\ task # <<>>

BothHeaders(text) == Contains(text, HdrAnalysis) /\ Contains(text, HdrEnhanced)

\* the current run called the provider and got a text back
GotText ==
  /\ submit /\ AllFilled /\ api_key # <<>>
  /\ response.kind = "ok" /\ response.content # None

----------------------------------------------------------------------------
(* Properties of the form handler, checked under Spec *)

\* C1: a submission with at least one of Role, Context, Task empty shows the
\* warning and nothing else, makes no completion call, parses nothing and
\* produces no error, result or download, with or without an API key.
C1_IncompleteFormWarnsWithoutCall ==
  (submit /\ (role = <<>> \/ context = <<>> \/ task = <<>>)) =>
    /\ Kinds(page) = {"warning"}
    /\ Len(page) = 1
    /\ calls = 0
    /\ response = NotCalled
    /\ rule = 0

\* C1 witness: a key is entered, Role is empty, the other fields are filled
C1_Witness ==
  /\ submit /\ api_key # <<>>
  /\ role = <<>> /\ context # <<>> /\ task # <<>>
  /\ Shown(page) = "warning"

\* C2: with all three fields filled, a missing API key or an exception of
\* the completion call surfaces exactly one error message; the splitter is
\* not applied, and no analysis, enhanced prompt or download is shown.
C2_FailureShowsOneErrorOnly ==
  (submit /\ AllFilled /\ (api_key = <<>> \/ response.kind = "raise")) =>
    /\ CountKind(page, "error") = 1
    /\ Kinds(page) = {"error"}
    /\ rule = 0
    /\ analysis = None /\ enhanced_prompt = None

\* C2 witness: the key is present and the call raised
C2_Witness ==
  /\ submit /\ AllFilled /\ api_key # <<>>
  /\ response.kind = "raise"
  /\ Shown(page) = "error"

\* C3: whenever the call returns a text, whatever the text, the handler
\* renders the analysis and the enhanced prompt and offers the enhanced
\* prompt as the download enhanced_prompt.txt.
C3_ReturnedTextIsDisplayed ==
  GotText =>
    /\ IsText(analysis) /\ IsText(enhanced_prompt)
    /\ HasEl(page, El("markdown", "", analysis))
    /\ HasEl(page, El("markdown", "", enhanced_prompt))
    /\ HasEl(page, El("download_button", "enhanced_prompt.txt",
                      enhanced_prompt))

\* C10: a submission makes at most one completion call; a call that raised
\* is not repeated and leaves one error and nothing else; and whatever the
\* run before showed, a submission whose call returns a text shows no
\* warning and no error, and shows exactly the rendering of its own result
\* when both sections are non-empty.
C10_OneCallAndNoCarryOver ==
  /\ calls \in {0, 1}
  /\ response.kind = "raise" => (calls = 1 /\ Len(page) = 1
                                 /\ page[1].kind = "error")
  /\ GotText =>
       /\ calls = 1
       /\ Kinds(page) \cap {"warning", "error"} = {}
       /\ (analysis # <<>> /\ enhanced_prompt # <<>>) =>
            page = RenderResult(analysis, enhanced_prompt,
                                role, context, task)

\* C10 witness: the run before showed an error, this one shows its result
C10_Witness ==
  /\ prev = "error"
  /\ GotText
  /\ calls = 1
  /\ Shown(page) = "success"

----------------------------------------------------------------------------
(* Properties of the parsing step, checked under SplitSpec *)

\* C4: a text with both header markers is split at the first occurrence of
\* "## Enhanced Prompt": the enhanced prompt is all of the text after that
\* occurrence, trimmed, and the analysis is the text before it with the
\* "## Analysis" marker removed, trimmed.
C4_HeaderSplitAtFirstMarker ==
  (pc = "parsed" /\ BothHeaders(enhanced_prompt_full)) =>
    LET i == Find(enhanced_prompt_full, HdrEnhanced, 1)
    IN  /\ enhanced_prompt =
             PyStrip(From(enhanced_prompt_full, i + Len(HdrEnhanced)))
        /\ analysis =
             PyStrip(PyRemove(Upto(enhanced_prompt_full, i - 1),
                              HdrAnalysis))

\* C5: a text rule 1 does not apply to and that contains "ENHANCED PROMPT:"
\* gives the trimmed text before the first occurrence as the analysis, and
\* the text from that occurrence on, as it stands, trimmed at its ends, as
\* the enhanced prompt.
C5_MarkerAndFollowingTextKept ==
  (/\ pc = "parsed"
   /\ ~BothHeaders(enhanced_prompt_full)
   /\ Contains(enhanced_prompt_full, MarkEnhanced)) =>
    LET i == Find(enhanced_prompt_full, MarkEnhanced, 1)
    IN  /\ analysis = PyStrip(Upto(enhanced_prompt_full, i - 1))
        /\ enhanced_prompt = PyStrip(From(enhanced_prompt_full, i))

\* the texts rule 3 is about
RoleTaskCase(text) ==
  /\ ~BothHeaders(text)
  /\ ~Contains(text, MarkEnhanced)
  /\ Contains(text, MarkRole) /\ Contains(text, MarkTask)

\* C6: for a text of rule 3, if a "TASK:" follows the first "ROLE:" the
\* analysis is the trimmed text before the first "ROLE:" and the enhanced
\* prompt is the trimmed span from that "ROLE:" through the next "TASK:" up
\* to the first blank line after it, or to the end of the text; otherwise
\* the analysis is the whole text and the enhanced prompt the fallback.
C6_RoleTaskSpan ==
  (pc = "parsed" /\ RoleTaskCase(enhanced_prompt_full)) =>
    LET text == enhanced_prompt_full
        r == Find(text, MarkRole, 1)
        t == Find(text, MarkTask, r + Len(MarkRole))
        b == Find(text, <<"\n", "\n">>, t + Len(MarkTask))
        e == IF b = 0 THEN Len(text) + 1 ELSE b
    IN  IF t # 0
        THEN /\ analysis = PyStrip(Upto(text, r - 1))
             /\ enhanced_prompt = PyStrip(SubSeq(text, r, e - 1))
        ELSE /\ analysis = text
             /\ enhanced_prompt = FallbackPrompt

\* C6 witness: a blank line and more text follow "TASK:"; the span stops at
\* the blank line
C6_Witness ==
  /\ pc = "parsed"
  /\ enhanced_prompt_full = MarkRole \o MarkTask \o <<"\n", "\n", "x">>
  /\ analysis = <<>>
  /\ enhanced_prompt = MarkRole \o MarkTask

\* C7: the result is that of the first rule, in the order 1, 2, 3, 4, whose
\* condition holds; under rule 2 the enhanced prompt begins with the marker;
\* under rule 4 the analysis is the text unchanged and the enhanced prompt
\* is the fallback string.
C7_FirstMatchingRuleWins ==
  pc = "parsed" =>
    LET text == enhanced_prompt_full
        first == IF BothHeaders(text) THEN 1
                 ELSE IF Contains(text, MarkEnhanced) THEN 2
                 ELSE IF Contains(text, MarkRole) /\ Contains(text, MarkTask)
                 THEN 3 ELSE 4
    IN  /\ rule = first
        /\ first = 2 => OccursAt(enhanced_prompt, MarkEnhanced, 1)
        /\ first = 4 => (analysis = text /\ enhanced_prompt = FallbackPrompt)

\* C7 witness: both headers and "ENHANCED PROMPT:" occur; rule 1 is taken
C7_Witness ==
  /\ pc = "parsed"
  /\ BothHeaders(enhanced_prompt_full)
  /\ Contains(enhanced_prompt_full, MarkEnhanced)
  /\ rule = 1

\* C9: parsing any text raises nothing and returns two strings.
C9_ParsingIsTotal ==
  pc = "parsed" =>
    /\ rule \in 1..4
    /\ analysis # None /\ enhanced_prompt # None
    /\ IsText(analysis) /\ IsText(enhanced_prompt)

\* C9 witness: a marker alone, with nothing before or after it
C9_Witness ==
  /\ pc = "parsed"
  /\ enhanced_prompt_full = MarkEnhanced
  /\ analysis = <<>>
  /\ enhanced_prompt = MarkEnhanced

----------------------------------------------------------------------------
(* Round trip of well-formed texts, checked under RoundTripSpec *)

\* C8: "## Analysis" + A + "## Enhanced Prompt" + P, with neither marker in
\* A or P, is split into (trim(A), trim(P)); the two sections with the
\* markers re-inserted are the text without the white space next to the
\* markers and at the ends, and parsing that text gives the same pair.
C8_RoundTrip ==
  /\ pc = "parsed" =>
       (analysis = PyStrip(partA) /\ enhanced_prompt = PyStrip(partP))
  /\ pc = "reparsed" =>
       /\ enhanced_prompt_full =
            HdrAnalysis \o PyStrip(partA) \o HdrEnhanced \o PyStrip(partP)
       /\ analysis = PyStrip(partA)
       /\ enhanced_prompt = PyStrip(partP)

\* C8 witness: both sections have white space at their ends
C8_Witness ==
  /\ pc = "reparsed"
  /\ partA = <<"\n", "x">>
  /\ partP = <<"x", " ">>
  /\ analysis = <<"x">>
  /\ enhanced_prompt = <<"x">>

====
